---- MODULE Spec2Model ----
(***************************************************************************)
(* Behavior-tree engine of halite3-bot (src/behavior_tree.rs).             *)
(*                                                                         *)
(* A tree is a nested record.  A leaf is a Lambda holding a closure; a     *)
(* composite (Sequence, Selector) holds its children and current_child.    *)
(* One action ticks the root once: the whole recursive tick, with the      *)
(* results of the opaque closures and predicates drawn from the            *)
(* environment.  `last` records what the most recent tick did: the tree    *)
(* before it, the status returned, the nodes ticked (in call order, with   *)
(* the status each returned) and the predicates invoked.                   *)
(***************************************************************************)
EXTENDS Integers, Sequences, FiniteSets, TLC

VARIABLES tree, last

vars == <<tree, last>>

\* Largest number of children of a composite in the trees explored.
MaxChildren == 3

(***************************************************************************)
(* Status model                                                            *)
(***************************************************************************)
BtState == {"NotStarted", "Running", "Success", "Failure"}

\* Outcome of a tick that does not return: panic!() / unreachable!() / an
\* out-of-range index.
Panic == "Panic"

\* The loop of a composite goes round again (no return from this arm).
Continue == "Continue"

\* `last.ret` before the first tick.
NoTick == "NoTick"

(***************************************************************************)
(* Node constructors                                                       *)
(***************************************************************************)
\* lambda(func): a Lambda around a closure.
lambda(func) == [kind |-> "Lambda", func |-> func]

\* A closure of the tick signature about which nothing is known: each call
\* returns whatever the environment makes it return.
OpaqueClosure == [closure |-> "opaque"]

\* condition(p): the closure built around predicate p; it captures no state.
condition == lambda([closure |-> "condition"])

\* run_or_fail(p): the closure captures `state`, initially NotStarted.
run_or_fail == lambda([closure |-> "run_or_fail", state |-> "NotStarted"])

\* sequence(children) / Sequence::new
sequence(children) ==
    [kind |-> "Sequence", children |-> children, current_child |-> 0]

\* select(children) / Selector::new
select(children) ==
    [kind |-> "Selector", children |-> children, current_child |-> 0]

IsComposite(node) == node.kind \in {"Sequence", "Selector"}

\* interrupt: the decorator owns a primary subtree, a fallback subtree and a
\* monitor predicate; it keeps no cursor of its own.
interrupt(primary, fallback) ==
    [kind |-> "Interrupt", primary |-> primary, fallback |-> fallback]

\* The subtrees a node owns, in order: a decorator's primary is child 0 and
\* its fallback child 1.
Children(node) ==
    CASE node.kind = "Interrupt" -> <<node.primary, node.fallback>>
      [] IsComposite(node)       -> node.children
      [] OTHER                   -> <<>>

(***************************************************************************)
(* The leaves of the collector (bt_tasks.rs).  What they do to the game is *)
(* outside the engine; each is a closure with the statuses it can return.  *)
(***************************************************************************)
\* Mutant: go_home gives up when it cannot move.
GoHomeReturns_MayFail == {"Running", "Failure"}

GoHomeReturns == {"Running"}

DeliverReturns == {"Success", "Running"}

FindResReturns == {"Success", "Running"}

FindDesperateReturns == {"Success", "Running", "Failure"}

GreedyReturns == {"Success", "Running", "Failure"}

DesperateReturns == {"Success", "Running", "Failure"}

deliver == lambda([closure |-> "deliver"])

go_home == lambda([closure |-> "go_home"])

find_res == lambda([closure |-> "find_res"])

find_desperate == lambda([closure |-> "find_desperate"])

greedy == lambda([closure |-> "greedy"])

desperate == lambda([closure |-> "desperate"])

(***************************************************************************)
(* The environment of one tick: what each opaque closure returns and what  *)
(* each predicate answers when it is called during this tick.  A node is   *)
(* named by its path from the root (child indices, from 0).                *)
(***************************************************************************)
\* The closures whose status comes from the environment, and the statuses
\* each can return.
LeafReturns(closure) ==
    CASE closure = "opaque"         -> BtState
      [] closure = "deliver"        -> DeliverReturns
      [] closure = "go_home"        -> GoHomeReturns
      [] closure = "find_res"       -> FindResReturns
      [] closure = "find_desperate" -> FindDesperateReturns
      [] closure = "greedy"         -> GreedyReturns
      [] closure = "desperate"      -> DesperateReturns

EnvClosures ==
    {"opaque", "deliver", "go_home", "find_res", "find_desperate", "greedy",
     "desperate"}

\* The predicates: of condition, of run_or_fail, and a decorator's monitor.
Predicates == {"condition", "run_or_fail", "monitor"}

\* The paths of the nodes that hold one of `closures`.
RECURSIVE PathsOf(_, _, _)
PathsOf(node, path, closures) ==
    IF node.kind = "Lambda"
    THEN IF node.func.closure \in closures THEN {path} ELSE {}
    ELSE (IF node.kind = "Interrupt" /\ "monitor" \in closures THEN {path} ELSE {})
         \cup UNION { PathsOf(Children(node)[i], Append(path, i - 1), closures)
                      : i \in DOMAIN Children(node) }

RECURSIVE NodeAt(_, _)
NodeAt(node, path) ==
    IF path = <<>> THEN node
    ELSE NodeAt(Children(node)[Head(path) + 1], Tail(path))

\* Every assignment of a status to the paths in P, each from the statuses
\* the closure at that path can return.
RECURSIVE RetEnvs(_, _)
RetEnvs(t, P) ==
    IF P = {} THEN { <<>> }
    ELSE LET p == CHOOSE q \in P : TRUE
         IN  { (p :> v) @@ f : v \in LeafReturns(NodeAt(t, p).func.closure),
                               f \in RetEnvs(t, P \ {p}) }

Envs(t) ==
    [ rets  : RetEnvs(t, PathsOf(t, <<>>, EnvClosures)),
      preds : [PathsOf(t, <<>>, Predicates) -> BOOLEAN] ]

(***************************************************************************)
(* Leaves                                                                  *)
(***************************************************************************)
\* Mutant: a false predicate reported as still running.
ConditionFunc_RunningWhenFalse(b) == IF b THEN "Success" ELSE "Running"

\* The closure of condition(p), given p's answer b.
ConditionFunc(b) == IF b THEN "Success" ELSE "Failure"

\* Mutant: the second phase forgets to reset the captured state.
RunOrFailFunc_NoReset(state, b) ==
    CASE state = "Running" ->
           [state |-> "Running", ret |-> "Success", called |-> FALSE]
      [] state = "NotStarted" ->
           IF b
           THEN [state |-> "Running", ret |-> "Running", called |-> TRUE]
           ELSE [state |-> "NotStarted", ret |-> "Failure", called |-> TRUE]
      [] OTHER ->
           [state |-> state, ret |-> Panic, called |-> FALSE]

\* Mutant: a refused action is recorded in the captured state.
RunOrFailFunc_FailureLatches(state, b) ==
    CASE state = "Running" ->
           [state |-> "NotStarted", ret |-> "Success", called |-> FALSE]
      [] state = "NotStarted" ->
           IF b
           THEN [state |-> "Running", ret |-> "Running", called |-> TRUE]
           ELSE [state |-> "Failure", ret |-> "Failure", called |-> TRUE]
      [] OTHER ->
           [state |-> state, ret |-> Panic, called |-> FALSE]

\* Mutant: a refused action returns the captured state instead of Failure.
RunOrFailFunc_ReturnsState(state, b) ==
    CASE state = "Running" ->
           [state |-> "NotStarted", ret |-> "Success", called |-> FALSE]
      [] state = "NotStarted" ->
           IF b
           THEN [state |-> "Running", ret |-> "Running", called |-> TRUE]
           ELSE [state |-> "NotStarted", ret |-> state, called |-> TRUE]
      [] OTHER ->
           [state |-> state, ret |-> Panic, called |-> FALSE]

\* The closure of run_or_fail(p) in captured state `state`; b is p's answer
\* if p is called.  Gives the new captured state, the status returned and
\* whether p was called.
RunOrFailFunc(state, b) ==
    CASE state = "Running" ->
           [state |-> "NotStarted", ret |-> "Success", called |-> FALSE]
      [] state = "NotStarted" ->
           IF b
           THEN [state |-> "Running", ret |-> "Running", called |-> TRUE]
           ELSE [state |-> "NotStarted", ret |-> "Failure", called |-> TRUE]
      [] OTHER ->
           [state |-> state, ret |-> Panic, called |-> FALSE]

\* Lambda::tick: (self.func)(env).
LambdaTick(self, path, env) ==
    CASE self.func.closure \in EnvClosures ->
           [node |-> self, ret |-> env.rets[path], trace |-> <<>>, calls |-> <<>>]
      [] self.func.closure = "condition" ->
           [node |-> self, ret |-> ConditionFunc(env.preds[path]), trace |-> <<>>,
            calls |-> <<[path |-> path, value |-> env.preds[path]]>>]
      [] self.func.closure = "run_or_fail" ->
           LET r == RunOrFailFunc(self.func.state, env.preds[path])
           IN  [node |-> [self EXCEPT !.func.state = r.state],
                ret |-> r.ret, trace |-> <<>>,
                calls |-> IF r.called
                          THEN <<[path |-> path, value |-> env.preds[path]]>>
                          ELSE <<>>]

(***************************************************************************)
(* Composites                                                              *)
(***************************************************************************)
\* Mutant: a Running child resets the cursor.
SequenceMatch_RunningResets(ret, current_child, len) ==
    CASE ret = "Running" -> [current_child |-> 0, out |-> "Running"]
      [] ret = "Failure" -> [current_child |-> 0, out |-> "Failure"]
      [] ret = "Success" ->
           IF current_child + 1 = len
           THEN [current_child |-> 0, out |-> "Success"]
           ELSE [current_child |-> current_child + 1, out |-> Continue]
      [] OTHER -> [current_child |-> current_child, out |-> Panic]

\* Mutant: the cursor is not reset when the last child succeeds.
SequenceMatch_NoResetOnSuccess(ret, current_child, len) ==
    CASE ret = "Running" -> [current_child |-> current_child, out |-> "Running"]
      [] ret = "Failure" -> [current_child |-> 0, out |-> "Failure"]
      [] ret = "Success" ->
           IF current_child + 1 = len
           THEN [current_child |-> current_child + 1, out |-> "Success"]
           ELSE [current_child |-> current_child + 1, out |-> Continue]
      [] OTHER -> [current_child |-> current_child, out |-> Panic]

\* Mutant: the cursor is not reset when a child fails.
SequenceMatch_NoResetOnFailure(ret, current_child, len) ==
    CASE ret = "Running" -> [current_child |-> current_child, out |-> "Running"]
      [] ret = "Failure" -> [current_child |-> current_child, out |-> "Failure"]
      [] ret = "Success" ->
           IF current_child + 1 = len
           THEN [current_child |-> 0, out |-> "Success"]
           ELSE [current_child |-> current_child + 1, out |-> Continue]
      [] OTHER -> [current_child |-> current_child, out |-> Panic]

\* Mutant: one child per tick; after a Success the tick ends as Running.
SequenceMatch_OneChildPerTick(ret, current_child, len) ==
    CASE ret = "Running" -> [current_child |-> current_child, out |-> "Running"]
      [] ret = "Failure" -> [current_child |-> 0, out |-> "Failure"]
      [] ret = "Success" ->
           IF current_child + 1 = len
           THEN [current_child |-> 0, out |-> "Success"]
           ELSE [current_child |-> current_child + 1, out |-> "Running"]
      [] OTHER -> [current_child |-> current_child, out |-> Panic]

\* The match of Sequence::tick on the status `ret` of the child at
\* current_child, of `len` children: the new current_child and the status
\* returned, or Continue.
SequenceMatch(ret, current_child, len) ==
    CASE ret = "Running" -> [current_child |-> current_child, out |-> "Running"]
      [] ret = "Failure" -> [current_child |-> 0, out |-> "Failure"]
      [] ret = "Success" ->
           IF current_child + 1 = len
           THEN [current_child |-> 0, out |-> "Success"]
           ELSE [current_child |-> current_child + 1, out |-> Continue]
      [] OTHER -> [current_child |-> current_child, out |-> Panic]

\* Mutant: the first Failure ends the tick; no alternative is tried.
SelectorMatch_FailsFast(ret, current_child, len) ==
    CASE ret = "Running" -> [current_child |-> current_child, out |-> "Running"]
      [] ret = "Success" -> [current_child |-> 0, out |-> "Success"]
      [] ret = "Failure" -> [current_child |-> 0, out |-> "Failure"]
      [] OTHER -> [current_child |-> current_child, out |-> Panic]

\* Mutant: a Running child resets the cursor.
SelectorMatch_RunningResets(ret, current_child, len) ==
    CASE ret = "Running" -> [current_child |-> 0, out |-> "Running"]
      [] ret = "Success" -> [current_child |-> 0, out |-> "Success"]
      [] ret = "Failure" ->
           IF current_child + 1 = len
           THEN [current_child |-> 0, out |-> "Failure"]
           ELSE [current_child |-> current_child + 1, out |-> Continue]
      [] OTHER -> [current_child |-> current_child, out |-> Panic]

\* Mutant: the cursor is not reset when a child succeeds.
SelectorMatch_NoResetOnSuccess(ret, current_child, len) ==
    CASE ret = "Running" -> [current_child |-> current_child, out |-> "Running"]
      [] ret = "Success" -> [current_child |-> current_child, out |-> "Success"]
      [] ret = "Failure" ->
           IF current_child + 1 = len
           THEN [current_child |-> 0, out |-> "Failure"]
           ELSE [current_child |-> current_child + 1, out |-> Continue]
      [] OTHER -> [current_child |-> current_child, out |-> Panic]

\* Mutant: a child's NotStarted is taken for a Failure.
SelectorMatch_NotStartedFails(ret, current_child, len) ==
    CASE ret = "Running" -> [current_child |-> current_child, out |-> "Running"]
      [] ret = "Success" -> [current_child |-> 0, out |-> "Success"]
      [] ret \in {"Failure", "NotStarted"} ->
           IF current_child + 1 = len
           THEN [current_child |-> 0, out |-> "Failure"]
           ELSE [current_child |-> current_child + 1, out |-> Continue]
      [] OTHER -> [current_child |-> current_child, out |-> Panic]

\* The match of Selector::tick.
SelectorMatch(ret, current_child, len) ==
    CASE ret = "Running" -> [current_child |-> current_child, out |-> "Running"]
      [] ret = "Success" -> [current_child |-> 0, out |-> "Success"]
      [] ret = "Failure" ->
           IF current_child + 1 = len
           THEN [current_child |-> 0, out |-> "Failure"]
           ELSE [current_child |-> current_child + 1, out |-> Continue]
      [] OTHER -> [current_child |-> current_child, out |-> Panic]

RECURSIVE Tick(_, _, _)
RECURSIVE SequenceTick(_, _, _, _)
RECURSIVE SelectorTick(_, _, _, _)
RECURSIVE InterruptTick(_, _, _)

\* Mutant: a tick starts at the first child, whatever the cursor.
SequenceTick_FromFirstChild(self, path, env, acc) ==
    IF self.current_child >= Len(self.children)
    THEN [node |-> self, ret |-> Panic, trace |-> acc.trace, calls |-> acc.calls]
    ELSE
      LET i    == IF acc.trace = <<>> THEN 0 ELSE self.current_child
          r    == Tick(self.children[i + 1], Append(path, i), env)
          m    == SequenceMatch(r.ret, i, Len(self.children))
          next == [self EXCEPT !.children[i + 1] = r.node,
                               !.current_child = m.current_child]
          acc1 == [trace |-> acc.trace \o r.trace, calls |-> acc.calls \o r.calls]
      IN  IF m.out = Continue
          THEN SequenceTick(next, path, env, acc1)
          ELSE [node |-> next, ret |-> m.out,
                trace |-> acc1.trace, calls |-> acc1.calls]

\* Sequence::tick, from the top of its loop; acc holds the trace and calls
\* of the children ticked so far in this tick.
SequenceTick(self, path, env, acc) ==
    IF self.current_child >= Len(self.children)
    THEN [node |-> self, ret |-> Panic, trace |-> acc.trace, calls |-> acc.calls]
    ELSE
      LET i    == self.current_child
          r    == Tick(self.children[i + 1], Append(path, i), env)
          m    == SequenceMatch(r.ret, i, Len(self.children))
          next == [self EXCEPT !.children[i + 1] = r.node,
                               !.current_child = m.current_child]
          acc1 == [trace |-> acc.trace \o r.trace, calls |-> acc.calls \o r.calls]
      IN  IF m.out = Continue
          THEN SequenceTick(next, path, env, acc1)
          ELSE [node |-> next, ret |-> m.out,
                trace |-> acc1.trace, calls |-> acc1.calls]

\* Selector::tick, from the top of its loop.
SelectorTick(self, path, env, acc) ==
    IF self.current_child >= Len(self.children)
    THEN [node |-> self, ret |-> Panic, trace |-> acc.trace, calls |-> acc.calls]
    ELSE
      LET i    == self.current_child
          r    == Tick(self.children[i + 1], Append(path, i), env)
          m    == SelectorMatch(r.ret, i, Len(self.children))
          next == [self EXCEPT !.children[i + 1] = r.node,
                               !.current_child = m.current_child]
          acc1 == [trace |-> acc.trace \o r.trace, calls |-> acc.calls \o r.calls]
      IN  IF m.out = Continue
          THEN SelectorTick(next, path, env, acc1)
          ELSE [node |-> next, ret |-> m.out,
                trace |-> acc1.trace, calls |-> acc1.calls]

\* A node as it is at construction: cursors 0, run_or_fail NotStarted.
RECURSIVE Fresh(_)
Fresh(node) ==
    CASE node.kind = "Lambda" ->
           IF node.func.closure = "run_or_fail" THEN run_or_fail ELSE node
      [] node.kind = "Interrupt" ->
           interrupt(Fresh(node.primary), Fresh(node.fallback))
      [] OTHER ->
           [node EXCEPT !.current_child = 0,
                        !.children = [i \in DOMAIN node.children |->
                                          Fresh(node.children[i])]]

\* Mutant: the monitor is read the wrong way round.
InterruptTick_Inverted(self, path, env) ==
    LET monitor == [path |-> path, value |-> env.preds[path]]
    IN  IF ~env.preds[path]
        THEN LET r == Tick(self.fallback, Append(path, 1), env)
             IN  [node |-> [self EXCEPT !.fallback = r.node], ret |-> r.ret,
                  trace |-> r.trace, calls |-> <<monitor>> \o r.calls]
        ELSE LET r == Tick(self.primary, Append(path, 0), env)
             IN  [node |-> [self EXCEPT !.primary = r.node], ret |-> r.ret,
                  trace |-> r.trace, calls |-> <<monitor>> \o r.calls]

\* Mutant: switching to the fallback restarts the primary.
InterruptTick_ResetsPrimary(self, path, env) ==
    LET monitor == [path |-> path, value |-> env.preds[path]]
    IN  IF env.preds[path]
        THEN LET r == Tick(self.fallback, Append(path, 1), env)
             IN  [node |-> [self EXCEPT !.fallback = r.node,
                                        !.primary = Fresh(self.primary)],
                  ret |-> r.ret,
                  trace |-> r.trace, calls |-> <<monitor>> \o r.calls]
        ELSE LET r == Tick(self.primary, Append(path, 0), env)
             IN  [node |-> [self EXCEPT !.primary = r.node], ret |-> r.ret,
                  trace |-> r.trace, calls |-> <<monitor>> \o r.calls]

\* The tick of the interrupt decorator: evaluate the monitor; if it is true
\* tick the fallback and return its status, otherwise tick the primary and
\* return its status.  The subtree not ticked is left as it is.
InterruptTick(self, path, env) ==
    LET monitor == [path |-> path, value |-> env.preds[path]]
    IN  IF env.preds[path]
        THEN LET r == Tick(self.fallback, Append(path, 1), env)
             IN  [node |-> [self EXCEPT !.fallback = r.node], ret |-> r.ret,
                  trace |-> r.trace, calls |-> <<monitor>> \o r.calls]
        ELSE LET r == Tick(self.primary, Append(path, 0), env)
             IN  [node |-> [self EXCEPT !.primary = r.node], ret |-> r.ret,
                  trace |-> r.trace, calls |-> <<monitor>> \o r.calls]

\* BtNode::tick, dispatched on the node; the node's own event comes first
\* in the trace, then those of the nodes it ticked.
Tick(node, path, env) ==
    LET r == CASE node.kind = "Lambda"   -> LambdaTick(node, path, env)
               [] node.kind = "Sequence" ->
                    SequenceTick(node, path, env, [trace |-> <<>>, calls |-> <<>>])
               [] node.kind = "Selector" ->
                    SelectorTick(node, path, env, [trace |-> <<>>, calls |-> <<>>])
               [] node.kind = "Interrupt" -> InterruptTick(node, path, env)
    IN  [r EXCEPT !.trace = <<[path |-> path, ret |-> r.ret]>> \o r.trace]

(***************************************************************************)
(* The trees explored                                                      *)
(***************************************************************************)
Leaves == {lambda(OpaqueClosure), condition, run_or_fail}

ChildLists == UNION { [1..n -> Leaves] : n \in 1..MaxChildren }

FlatTrees == { sequence(cs) : cs \in ChildLists }
               \cup { select(cs) : cs \in ChildLists }

\* Composites of two leaves, the subtrees of the nested trees.
Pairs == { sequence(<<a, b>>) : a \in Leaves, b \in Leaves }
           \cup { select(<<a, b>>) : a \in Leaves, b \in Leaves }

\* Composites whose children are composites: a pair and a leaf, in both
\* orders.
NestedTrees ==
    { sequence(<<c, a>>) : c \in Pairs, a \in Leaves }
      \cup { sequence(<<a, c>>) : c \in Pairs, a \in Leaves }
      \cup { select(<<c, a>>) : c \in Pairs, a \in Leaves }
      \cup { select(<<a, c>>) : c \in Pairs, a \in Leaves }

\* The subtrees given to the decorator.
Subtrees ==
    { lambda(OpaqueClosure), run_or_fail,
      sequence(<<lambda(OpaqueClosure), lambda(OpaqueClosure)>>),
      select(<<lambda(OpaqueClosure), lambda(OpaqueClosure)>>),
      sequence(<<condition, run_or_fail>>) }

InterruptTrees == { interrupt(p, f) : p \in Subtrees, f \in Subtrees }

\* collector(id), with `first` as the first branch of its root.
collectorWith(first) == select(<<first, go_home>>)

\* The strategies guarded by the interrupt in collector(id).
strategies ==
    select(<<sequence(<<greedy, deliver>>),
             find_res,
             sequence(<<desperate, deliver>>),
             find_desperate>>)

\* collector(id).  The decorator is given the strategies and the monitor;
\* its fallback is the return-to-base leaf.
collector == collectorWith(interrupt(strategies, go_home))

\* The collector, and the collector with its first branch left open: a node
\* that may return any status.
CollectorTrees == {collector, collectorWith(lambda(OpaqueClosure))}

Trees == Leaves \cup FlatTrees \cup NestedTrees \cup InterruptTrees
           \cup CollectorTrees

(***************************************************************************)
(* State machine                                                           *)
(***************************************************************************)
Init ==
    /\ tree \in Trees
    /\ last = [before |-> tree, ret |-> NoTick, trace |-> <<>>, calls |-> <<>>]

\* One tick of the root by its owner, under environment env.
TickRoot(env) ==
    LET r == Tick(tree, <<>>, env)
    IN  /\ tree' = r.node
        /\ last' = [before |-> tree, ret |-> r.ret,
                    trace |-> r.trace, calls |-> r.calls]

\* The root is a leaf.
TickLambda ==
    /\ last.ret # Panic
    /\ tree.kind = "Lambda"
    /\ \E env \in Envs(tree) : TickRoot(env)

\* The root is a Sequence.
TickSequence ==
    /\ last.ret # Panic
    /\ tree.kind = "Sequence"
    /\ \E env \in Envs(tree) : TickRoot(env)

\* The root is a Selector.
TickSelector ==
    /\ last.ret # Panic
    /\ tree.kind = "Selector"
    /\ \E env \in Envs(tree) : TickRoot(env)

\* The root is an interrupt decorator.
TickInterrupt ==
    /\ last.ret # Panic
    /\ tree.kind = "Interrupt"
    /\ \E env \in Envs(tree) : TickRoot(env)

Next == TickLambda \/ TickSequence \/ TickSelector \/ TickInterrupt

Spec == Init /\ [][Next]_vars

(***************************************************************************)
(* Reading the record of the last tick                                     *)
(***************************************************************************)
Ticked == last.ret # NoTick

\* The events of the root's own children, in the order they were ticked.
ChildEvents(trace) == SelectSeq(trace, LAMBDA e : Len(e.path) = 1)

Evs == ChildEvents(last.trace)

\* The index of the child an event is about.
Idx(e) == e.path[1]

CallsAt(calls, path) == SelectSeq(calls, LAMBDA c : c.path = path)

EventsAt(trace, path) == SelectSeq(trace, LAMBDA e : e.path = path)

IsClosure(node, name) == node.kind = "Lambda" /\ node.func.closure = name

\* (before, after) have just been related by one tick of a root of this kind.
EndedRunning(l) ==
    /\ l.ret # NoTick
    /\ ChildEvents(l.trace) # <<>>
    /\ ChildEvents(l.trace)[Len(ChildEvents(l.trace))].ret = "Running"

RunningChild(l) == Idx(ChildEvents(l.trace)[Len(ChildEvents(l.trace))])

\* After a tick that ended at a Running child k: the composite returned
\* Running, and the tick now taken ticks child k first and no child below k.
ResumesAtRunningChild ==
    EndedRunning(last) =>
        /\ last.ret = "Running"
        /\ ChildEvents(last'.trace) # <<>>
        /\ Idx(ChildEvents(last'.trace)[1]) = RunningChild(last)
        /\ \A j \in 1..Len(ChildEvents(last'.trace)) :
               Idx(ChildEvents(last'.trace)[j]) >= RunningChild(last)

(***************************************************************************)
(* C1 - Sequence resume: if a tick of a Sequence ends because child k      *)
(* returned Running, the Sequence returns Running and its very next tick   *)
(* ticks child k first and no child with index < k.                        *)
(***************************************************************************)
C1_SequenceResume ==
    [][ tree.kind = "Sequence" => ResumesAtRunningChild ]_vars

\* A Sequence was resumed at a child k > 0 and ticked it first.
C1_Witness ==
    /\ tree.kind = "Sequence"
    /\ Ticked
    /\ last.before.current_child > 0
    /\ Idx(Evs[1]) = last.before.current_child

(***************************************************************************)
(* C2 - Sequence single-tick collapse: from cursor 0, if every child       *)
(* returns Success when ticked, one tick ticks children 0..n-1 each once   *)
(* in index order, returns Success and leaves the cursor at 0.             *)
(***************************************************************************)
C2_SequenceCollapse ==
    ( /\ tree.kind = "Sequence"
      /\ Ticked
      /\ last.before.current_child = 0
      /\ \A j \in 1..Len(Evs) : Evs[j].ret = "Success" )
    => /\ Len(Evs) = Len(tree.children)
       /\ \A j \in 1..Len(Evs) : Idx(Evs[j]) = j - 1
       /\ last.ret = "Success"
       /\ tree.current_child = 0

\* A Sequence of the largest length collapsed in one tick.
C2_Witness ==
    /\ tree.kind = "Sequence"
    /\ Ticked
    /\ last.before.current_child = 0
    /\ Len(tree.children) >= 3
    /\ Len(Evs) = Len(tree.children)
    /\ \A j \in 1..Len(Evs) : Evs[j].ret = "Success"
    /\ last.ret = "Success"

(***************************************************************************)
(* C3 - Sequence failure reset: if child k returns Failure during a tick,  *)
(* the Sequence returns Failure from that tick without ticking a child     *)
(* with index > k, the cursor is 0 on return, and the next tick ticks      *)
(* child 0 first.                                                          *)
(***************************************************************************)
SequenceFailed(l, t) ==
    /\ t.kind = "Sequence"
    /\ l.ret # NoTick
    /\ \E j \in 1..Len(ChildEvents(l.trace)) : ChildEvents(l.trace)[j].ret = "Failure"

C3_SequenceFailureReset ==
    [][ /\ SequenceFailed(last', tree') =>
            LET evs == ChildEvents(last'.trace)
            IN  /\ \A j \in 1..Len(evs) :
                      evs[j].ret = "Failure" =>
                          /\ j = Len(evs)
                          /\ \A i \in 1..Len(evs) : Idx(evs[i]) <= Idx(evs[j])
                /\ last'.ret = "Failure"
                /\ tree'.current_child = 0
        /\ SequenceFailed(last, tree) =>
            /\ ChildEvents(last'.trace) # <<>>
            /\ Idx(ChildEvents(last'.trace)[1]) = 0 ]_vars

\* A Sequence failed at a child k > 0 and was reset.
C3_Witness ==
    /\ SequenceFailed(last, tree)
    /\ Idx(Evs[Len(Evs)]) > 0
    /\ last.ret = "Failure"
    /\ tree.current_child = 0

(***************************************************************************)
(* C4 - Selector terminal outcomes: a tick returns Success as soon as a    *)
(* ticked child returns Success (no later child ticked, cursor 0); a       *)
(* child's Failure makes the Selector tick the next child in the same      *)
(* tick; Failure is returned, with cursor 0, only after the last child     *)
(* returned Failure.  Selector [Failure-leaf, Success-leaf] ticked once    *)
(* returns Success having ticked both children.                            *)
(***************************************************************************)
C4_SelectorTerminal ==
    (tree.kind = "Selector" /\ Ticked) =>
        LET n == Len(tree.children)
        IN  /\ \A j \in 1..Len(Evs) :
                  Evs[j].ret = "Success" =>
                      /\ j = Len(Evs)
                      /\ last.ret = "Success"
                      /\ tree.current_child = 0
            /\ \A j \in 1..Len(Evs) :
                  (Evs[j].ret = "Failure" /\ Idx(Evs[j]) + 1 < n) =>
                      /\ j < Len(Evs)
                      /\ Idx(Evs[j + 1]) = Idx(Evs[j]) + 1
            /\ last.ret = "Failure" <=>
                  /\ Evs # <<>>
                  /\ Evs[Len(Evs)].ret = "Failure"
                  /\ Idx(Evs[Len(Evs)]) = n - 1
            /\ last.ret = "Failure" => tree.current_child = 0
            /\ ( /\ n = 2
                 /\ last.before.current_child = 0
                 /\ Evs # <<>>
                 /\ Evs[1].ret = "Failure"
                 /\ Len(Evs) >= 2 => Evs[2].ret = "Success" )
               => /\ last.ret = "Success"
                  /\ Len(Evs) = 2
                  /\ Idx(Evs[1]) = 0
                  /\ Idx(Evs[2]) = 1

\* The scenario: a Selector of two, first child Failure, second Success.
C4_Witness ==
    /\ tree.kind = "Selector"
    /\ Ticked
    /\ Len(tree.children) = 2
    /\ last.before.current_child = 0
    /\ Len(Evs) = 2
    /\ Evs[1].ret = "Failure"
    /\ Evs[2].ret = "Success"
    /\ last.ret = "Success"

(***************************************************************************)
(* C5 - Selector resume: if a tick of a Selector ends because child k      *)
(* returned Running, the Selector returns Running and its next tick ticks  *)
(* child k first; children with index < k are not re-ticked on it.         *)
(***************************************************************************)
C5_SelectorResume ==
    [][ tree.kind = "Selector" => ResumesAtRunningChild ]_vars

\* A Selector was resumed at a child k > 0 and ticked it first.
C5_Witness ==
    /\ tree.kind = "Selector"
    /\ Ticked
    /\ last.before.current_child > 0
    /\ Idx(Evs[1]) = last.before.current_child

(***************************************************************************)
(* C6 - Cursor rule of composites.  As claimed: the cursor is 0 after a    *)
(* tick that returns Success or Failure, and a tick that returns Running   *)
(* leaves the cursor equal to its value before that tick.                  *)
(***************************************************************************)
C6_CursorUnchangedOnRunning ==
    (IsComposite(tree) /\ Ticked) =>
        /\ last.ret \in {"Success", "Failure"} => tree.current_child = 0
        /\ last.ret = "Running" => tree.current_child = last.before.current_child

(***************************************************************************)
(* C6 as amended: the cursor is 0 after a tick that returns Success or     *)
(* Failure; a tick that returns Running leaves the cursor at the child     *)
(* that returned Running, which is the value before the tick advanced by   *)
(* the number of children completed in this tick (so never below the       *)
(* value before the tick); the cursor decreases only on a terminal return. *)
(***************************************************************************)
C6_CursorRule ==
    (IsComposite(tree) /\ Ticked) =>
        /\ last.ret \in {"Success", "Failure"} => tree.current_child = 0
        /\ last.ret = "Running" =>
              /\ Evs # <<>>
              /\ Evs[Len(Evs)].ret = "Running"
              /\ tree.current_child = Idx(Evs[Len(Evs)])
              /\ tree.current_child = last.before.current_child + Len(Evs) - 1
        /\ tree.current_child < last.before.current_child =>
              last.ret \in {"Success", "Failure"}

\* A tick returned Running after completing earlier children: the cursor
\* moved.
C6_Witness ==
    /\ IsComposite(tree)
    /\ Ticked
    /\ last.ret = "Running"
    /\ tree.current_child > last.before.current_child

(***************************************************************************)
(* C7 - Same-tick fall-through in a Sequence: after a child that is not    *)
(* the last returns Success, the next child is ticked within the same      *)
(* tick.  Sequence [condition(true), leaf Running-then-Success] ticked     *)
(* twice returns (Running, Success), the condition is ticked only on the   *)
(* first tick, and the cursor is 0 after the second.                       *)
(***************************************************************************)
ScenarioTree == sequence(<<condition, lambda(OpaqueClosure)>>)

\* The first tick of the scenario: the condition is true, the leaf Running.
ScenarioFirstTick(l) ==
    /\ l.before = ScenarioTree
    /\ l.ret # NoTick
    /\ \A j \in 1..Len(l.calls) : l.calls[j].value = TRUE
    /\ \A j \in 1..Len(l.trace) : l.trace[j].path = <<1>> => l.trace[j].ret = "Running"

\* The second tick of the scenario: the condition is still true, the leaf
\* now returns Success.
ScenarioSecondTick(l) ==
    /\ \A j \in 1..Len(l.calls) : l.calls[j].value = TRUE
    /\ \A j \in 1..Len(l.trace) : l.trace[j].path = <<1>> => l.trace[j].ret = "Success"

C7_SequenceFallThrough ==
    [][ /\ tree'.kind = "Sequence" =>
            LET evs == ChildEvents(last'.trace)
            IN  \A j \in 1..Len(evs) :
                    (evs[j].ret = "Success" /\ Idx(evs[j]) + 1 < Len(tree'.children)) =>
                        /\ j < Len(evs)
                        /\ Idx(evs[j + 1]) = Idx(evs[j]) + 1
        /\ ScenarioFirstTick(last) =>
            /\ last.ret = "Running"
            /\ EventsAt(last.trace, <<0>>) # <<>>
            /\ EventsAt(last.trace, <<1>>) # <<>>
        /\ (ScenarioFirstTick(last) /\ ScenarioSecondTick(last')) =>
            /\ last'.ret = "Success"
            /\ EventsAt(last'.trace, <<0>>) = <<>>
            /\ tree'.current_child = 0 ]_vars

\* The scenario's second tick has happened: resumed at the leaf, Success.
C7_Witness ==
    /\ last.before = [ScenarioTree EXCEPT !.current_child = 1]
    /\ last.ret = "Success"
    /\ Len(Evs) = 1
    /\ Idx(Evs[1]) = 1
    /\ tree = ScenarioTree

(***************************************************************************)
(* C8 - run_or_fail two-phase cycle: a tick in state NotStarted on which p *)
(* returns true returns Running; the immediately following tick returns    *)
(* Success without invoking p and restores state NotStarted, the state at  *)
(* construction.                                                           *)
(***************************************************************************)
C8_RunOrFailCycle ==
    [][ IsClosure(tree, "run_or_fail") =>
          /\ ( /\ tree.func.state = "NotStarted"
               /\ last'.calls = <<[path |-> <<>>, value |-> TRUE]>> )
             => /\ last'.ret = "Running"
                /\ tree'.func.state = "Running"
          /\ last.ret = "Running"
             => /\ last'.ret = "Success"
                /\ last'.calls = <<>>
                /\ tree' = run_or_fail ]_vars

\* The second phase has happened: Success from state Running, p not called.
C8_Witness ==
    /\ IsClosure(tree, "run_or_fail")
    /\ last.before.func.state = "Running"
    /\ last.ret = "Success"
    /\ last.calls = <<>>
    /\ tree = run_or_fail

(***************************************************************************)
(* C9 - run_or_fail failure leaves the state unchanged: a tick in state    *)
(* NotStarted on which p returns false returns Failure and leaves the      *)
(* state NotStarted; after such failing ticks a tick on which p returns    *)
(* true returns Running and starts the two-phase run.                      *)
(***************************************************************************)
C9_RunOrFailFailure ==
    [][ IsClosure(tree, "run_or_fail") =>
          /\ tree.func.state = "NotStarted" => Len(last'.calls) = 1
          /\ ( /\ tree.func.state = "NotStarted"
               /\ last'.calls = <<[path |-> <<>>, value |-> FALSE]>> )
             => /\ last'.ret = "Failure"
                /\ tree' = tree
          /\ ( /\ last.ret = "Failure"
               /\ last'.calls = <<[path |-> <<>>, value |-> TRUE]>> )
             => /\ last'.ret = "Running"
                /\ tree'.func.state = "Running" ]_vars

\* A run was started right after a failing tick.
C9_Witness ==
    /\ IsClosure(tree, "run_or_fail")
    /\ last.before = run_or_fail
    /\ last.calls = <<[path |-> <<>>, value |-> TRUE]>>
    /\ last.ret = "Running"
    /\ tree.func.state = "Running"

(***************************************************************************)
(* C10 - condition(p) is stateless and always terminal: every tick of a    *)
(* condition node, wherever it sits and whatever happened before, calls p  *)
(* once and returns Success if p answered true and Failure otherwise,      *)
(* never Running or NotStarted, and leaves the node as it was.             *)
(***************************************************************************)
C10_ConditionStateless ==
    \A j \in 1..Len(last.trace) :
        LET e == last.trace[j]
        IN  IsClosure(NodeAt(last.before, e.path), "condition") =>
              /\ Len(CallsAt(last.calls, e.path)) = 1
              /\ e.ret = IF CallsAt(last.calls, e.path)[1].value
                         THEN "Success" ELSE "Failure"
              /\ e.ret \notin {"Running", "NotStarted", Panic}
              /\ NodeAt(tree, e.path) = NodeAt(last.before, e.path)

\* A condition standing alone was ticked and its predicate answered false.
C10_Witness ==
    /\ tree = condition
    /\ last.calls = <<[path |-> <<>>, value |-> FALSE]>>
    /\ last.ret = "Failure"

(***************************************************************************)
(* Reading the record of the last tick, at any depth                       *)
(***************************************************************************)
\* The events of the children of the node at `path`, in the order ticked.
DirectChildEvents(trace, path) ==
    SelectSeq(trace, LAMBDA e : /\ Len(e.path) = Len(path) + 1
                                /\ SubSeq(e.path, 1, Len(path)) = path)

\* The index, under its parent, of the child an event is about.
LastIdx(e) == e.path[Len(e.path)]

RECURSIVE HasInterrupt(_)
HasInterrupt(node) ==
    \/ node.kind = "Interrupt"
    \/ \E i \in DOMAIN Children(node) : HasInterrupt(Children(node)[i])

Returned == {"Running", "Success", "Failure"}

(***************************************************************************)
(* C11 - No node's tick returns NotStarted: if every leaf closure passed   *)
(* to lambda returns only Running, Success or Failure, the tick of every   *)
(* condition, run_or_fail, Sequence and Selector node, at any depth and    *)
(* after any ticks, returns only Running, Success or Failure.              *)
(***************************************************************************)
C11_NeverNotStarted ==
    ( \A j \in 1..Len(last.trace) :
          IsClosure(NodeAt(last.before, last.trace[j].path), "opaque")
              => last.trace[j].ret # "NotStarted" )
    => \A j \in 1..Len(last.trace) : last.trace[j].ret \in Returned

\* A run_or_fail two levels down was ticked in state NotStarted, stayed in
\* it and returned Failure.
C11_Witness ==
    \E j \in 1..Len(last.trace) :
        /\ Len(last.trace[j].path) = 2
        /\ IsClosure(NodeAt(last.before, last.trace[j].path), "run_or_fail")
        /\ NodeAt(last.before, last.trace[j].path).func.state = "NotStarted"
        /\ NodeAt(tree, last.trace[j].path).func.state = "NotStarted"
        /\ last.trace[j].ret = "Failure"
        /\ \A i \in 1..Len(last.trace) : last.trace[i].ret \in Returned

(***************************************************************************)
(* C12 - A child returning NotStarted is fatal: when the child ticked by a *)
(* Sequence or a Selector returns NotStarted, the composite's tick panics  *)
(* instead of returning a status; no further child is ticked, and the      *)
(* panic unwinds through the whole tick.                                   *)
(***************************************************************************)
C12_NotStartedIsFatal ==
    \A j \in 1..Len(last.trace) :
        LET e == last.trace[j]
            d == DirectChildEvents(last.trace, e.path)
        IN  IsComposite(NodeAt(last.before, e.path)) =>
              \A i \in 1..Len(d) :
                  d[i].ret = "NotStarted" =>
                      /\ e.ret = Panic
                      /\ i = Len(d)
                      /\ last.ret = Panic

\* A Selector went past a failed child to one that returned NotStarted.
C12_Witness ==
    /\ tree.kind = "Selector"
    /\ Ticked
    /\ Len(Evs) >= 2
    /\ Evs[Len(Evs)].ret = "NotStarted"
    /\ last.ret = Panic

(***************************************************************************)
(* C13 - Cursor range: in every Sequence and Selector, between ticks the   *)
(* cursor is within [0, number of children), and no child access inside a  *)
(* tick is out of range: a tick panics only because a child returned       *)
(* NotStarted.                                                             *)
(***************************************************************************)
C13_CursorInRange ==
    /\ \A p \in PathsOf(tree, <<>>, EnvClosures \cup Predicates) :
          \A k \in 0..Len(p) :
              LET node == NodeAt(tree, SubSeq(p, 1, k))
              IN  IsComposite(node) =>
                    /\ node.current_child >= 0
                    /\ node.current_child < Len(node.children)
    /\ last.ret = Panic =>
          \E j \in 1..Len(last.trace) : last.trace[j].ret = "NotStarted"
    /\ \A j \in 1..Len(last.trace) :
          LET e == last.trace[j]
          IN  (e.path # <<>> /\ IsComposite(NodeAt(last.before, SubSeq(e.path, 1, Len(e.path) - 1))))
                => LastIdx(e) < Len(NodeAt(last.before, SubSeq(e.path, 1, Len(e.path) - 1)).children)

\* A Sequence rests between ticks at its last child.
C13_Witness ==
    /\ tree.kind = "Sequence"
    /\ Ticked
    /\ Len(tree.children) >= 2
    /\ tree.current_child = Len(tree.children) - 1
    /\ last.ret = "Running"

(***************************************************************************)
(* The decorator at the root                                               *)
(***************************************************************************)
\* The events of the subtree under child i of the root (0: the primary,
\* 1: the fallback).
EventsUnder(trace, i) ==
    SelectSeq(trace, LAMBDA e : e.path # <<>> /\ e.path[1] = i)

\* The monitor's answer on the tick recorded in l.
MonitorOf(l) == CallsAt(l.calls, <<>>)[1].value

(***************************************************************************)
(* C14 - Interrupt switching: on every tick the decorator evaluates its    *)
(* monitor once, first; if it is true the fallback is ticked and its       *)
(* status returned without ticking the primary, otherwise the primary is   *)
(* ticked and its status returned without ticking the fallback.  With the  *)
(* monitor false on one tick and true on the next, the first ticks the     *)
(* primary and the second the fallback, even if the primary returned       *)
(* Running.                                                                *)
(***************************************************************************)
SwitchesOnMonitor(l) ==
    /\ Len(CallsAt(l.calls, <<>>)) = 1
    /\ l.calls[1].path = <<>>
    /\ MonitorOf(l) =>
          /\ EventsAt(l.trace, <<1>>) # <<>>
          /\ EventsUnder(l.trace, 0) = <<>>
          /\ l.ret = EventsAt(l.trace, <<1>>)[1].ret
    /\ ~MonitorOf(l) =>
          /\ EventsAt(l.trace, <<0>>) # <<>>
          /\ EventsUnder(l.trace, 1) = <<>>
          /\ l.ret = EventsAt(l.trace, <<0>>)[1].ret

C16_RunOrFailState ==
    /\ \A p \in PathsOf(tree, <<>>, {"run_or_fail"}) :
          NodeAt(tree, p).func.state \in {"NotStarted", "Running"}
    /\ \A j \in 1..Len(last.trace) :
          IsClosure(NodeAt(last.before, last.trace[j].path), "run_or_fail")
              => last.trace[j].ret # Panic

\* A run_or_fail inside a composite is in its second phase between ticks.
C16_Witness ==
    \E p \in PathsOf(tree, <<>>, {"run_or_fail"}) :
        /\ p # <<>>
        /\ NodeAt(tree, p).func.state = "Running"
        /\ NodeAt(last.before, p).func.state = "NotStarted"

(***************************************************************************)
(* C17 - The collector always has a fallback action: on every tick of the  *)
(* collector's root in which the first branch returns Failure, go_home is  *)
(* ticked in that same tick; go_home always returns Running, so the root   *)
(* never returns Failure.                                                  *)
(***************************************************************************)
IsCollector == Fresh(tree) \in CollectorTrees

C17_CollectorFallback ==
    (IsCollector /\ Ticked) =>
        /\ ( /\ EventsAt(last.trace, <<0>>) # <<>>
             /\ EventsAt(last.trace, <<0>>)[1].ret = "Failure" )
           => /\ Len(EventsAt(last.trace, <<1>>)) = 1
              /\ last.ret = "Running"
        /\ \A j \in 1..Len(last.trace) :
              last.trace[j].path = <<1>> => last.trace[j].ret = "Running"
        /\ last.ret # "Failure"

\* The first branch failed and go_home was ticked in the same tick.
C17_Witness ==
    /\ IsCollector
    /\ Ticked
    /\ last.before.current_child = 0
    /\ EventsAt(last.trace, <<0>>) # <<>>
    /\ EventsAt(last.trace, <<0>>)[1].ret = "Failure"
    /\ EventsAt(last.trace, <<1>>) # <<>>
    /\ last.ret = "Running"

(***************************************************************************)
(* C18 - Whole-subtree reset on terminal return: in a tree built from      *)
(* Sequence, Selector and leaves (no decorator), whenever a composite's    *)
(* tick returns Success or Failure, every Sequence and Selector in its     *)
(* subtree has cursor 0 and every run_or_fail in it is NotStarted: the     *)
(* subtree is as it was at construction.                                   *)
(***************************************************************************)
C18_SubtreeReset ==
    \A j \in 1..Len(last.trace) :
        LET e == last.trace[j]
        IN  ( /\ IsComposite(NodeAt(last.before, e.path))
              /\ ~HasInterrupt(NodeAt(last.before, e.path))
              /\ e.ret \in {"Success", "Failure"} )
            => NodeAt(tree, e.path) = Fresh(NodeAt(tree, e.path))

\* A nested tree with progress inside a child composite returned a terminal
\* status and is as at construction.
C18_Witness ==
    /\ IsComposite(tree)
    /\ ~HasInterrupt(tree)
    /\ \E i \in DOMAIN last.before.children :
          /\ IsComposite(last.before.children[i])
          /\ last.before.children[i].current_child > 0
          /\ \E k \in DOMAIN last.before.children[i].children :
                /\ IsClosure(last.before.children[i].children[k], "run_or_fail")
                /\ last.before.children[i].children[k].func.state = "Running"
    /\ last.ret \in {"Success", "Failure"}
    /\ tree = Fresh(tree)

(***************************************************************************)
(* C19 - Collector go_home latch: once a tick of the collector's root has  *)
(* reached go_home, the root cursor stays at 1; every later tick ticks     *)
(* only go_home and returns Running, and the first branch is never ticked  *)
(* again.                                                                  *)
(***************************************************************************)
ReachedGoHome(l) == l.ret # NoTick /\ EventsAt(l.trace, <<1>>) # <<>>

C19_GoHomeLatch ==
    [][ (IsCollector /\ ReachedGoHome(last)) =>
          /\ tree.current_child = 1
          /\ last.ret = "Running"
          /\ tree'.current_child = 1
          /\ last'.ret = "Running"
          /\ last'.trace = << [path |-> <<>>, ret |-> "Running"],
                              [path |-> <<1>>, ret |-> "Running"] >>
          /\ EventsUnder(last'.trace, 0) = <<>>
          /\ last'.calls = <<>> ]_vars

\* A tick that began latched at go_home ticked go_home alone.
C19_Witness ==
    /\ IsCollector
    /\ Ticked
    /\ last.before.current_child = 1
    /\ Len(last.trace) = 2
    /\ EventsAt(last.trace, <<1>>) # <<>>
    /\ tree.current_child = 1
    /\ last.ret = "Running"

(***************************************************************************)
(* C20 - Tick termination: every tick of a Sequence or Selector whose      *)
(* children's ticks end ends too; it ticks children in strictly            *)
(* increasing index order starting at the cursor, each at most once,       *)
(* hence at most n - cursor children.                                      *)
(***************************************************************************)
C20_TickBounded ==
    \A j \in 1..Len(last.trace) :
        LET e    == last.trace[j]
            node == NodeAt(last.before, e.path)
            d    == DirectChildEvents(last.trace, e.path)
        IN  IsComposite(node) =>
              /\ e.ret \in Returned \cup {Panic}
              /\ d # <<>>
              /\ LastIdx(d[1]) = node.current_child
              /\ \A i \in 1..(Len(d) - 1) : LastIdx(d[i + 1]) > LastIdx(d[i])
              /\ Len(d) <= Len(node.children) - node.current_child

\* A resumed tick ran through every remaining child.
C20_Witness ==
    /\ IsComposite(tree)
    /\ Ticked
    /\ last.before.current_child > 0
    /\ Len(Evs) = Len(tree.children) - last.before.current_child
    /\ Len(Evs) >= 2
====
